---- MODULE Spec2Model ----
(***************************************************************************)
(* Model of pytest_vts.vts.Recorder (src/src/pytest_vts/vts/__init__.py): *)
(* an HTTP record/playback engine built on `requests` and `responses`.    *)
(*                                                                         *)
(* Text (header values, response payloads) is a sequence of one-character *)
(* strings.  A decoded JSON value is a record [k, v]: k is the Python     *)
(* type ("num", "str", "null") and v its characters.  A Python str holds  *)
(* both a parsed JSON string and a payload kept as raw text: the code     *)
(* stores the two the same way, and so does the model.                    *)
(* A header mapping is a set of <<name, value>> pairs.                    *)
(***************************************************************************)
EXTENDS Naturals, Sequences, FiniteSets, TLC

\* file: the cassette file; cassette, has_recorded: the Recorder's fields;
\* started, registry: the RequestsMock (patched in, stand-ins registered);
\* phase, mode: where the session is and the branch setup took;
\* asked, last, ops: the last request issued, what its caller got and the
\* calls the last operation made; sends, writes: calls of sess.send and of
\* the file write in this session; heard: what the callers of the record
\* callback got in this session; tape: heard of the session that wrote the
\* file; nreq, nsess: requests of this session, sessions so far;
\* codec: one exchange taken through the codec alone;
\* loc: two cassette names resolved to their files;
\* flight: the request the record callback is sending, from its stop() to
\* its start(); strays: the requests issued with interception stopped that
\* the network has not answered yet; passed: the exchanges of this session
\* that the network
\* answered with interception stopped, without a callback
VARIABLES file, cassette, has_recorded, started, registry,
          phase, mode, asked, last, ops, sends, writes,
          heard, tape, nreq, nsess, codec, loc, flight, passed, strays

vars == <<file, cassette, has_recorded, started, registry,
          phase, mode, asked, last, ops, sends, writes,
          heard, tape, nreq, nsess, codec, loc, flight, passed, strays>>

(* ------------------------------ bounds --------------------------------- *)

\* requests issued by the test body of one session
MaxRequests == 2
\* sessions run one after another for the same cassette identity
MaxSessions == 3
\* length of the response payloads enumerated for the codec
MaxLen == 3
\* length of the cassette names enumerated for the file location
MaxName == 2

(* ------------------------------- text ---------------------------------- *)

QUOTE == "\""
BSLASH == "\\"
SPACE == " "

Digits == {"0", "1"}

\* the characters response payloads are built from
Alphabet == Digits \cup {"a", QUOTE, BSLASH, SPACE}

NullText == <<"n", "u", "l", "l">>

Gzip == <<"g", "z", "i", "p">>

\* "gzip" in content_encoding : Python substring test
IsInfix(p, s) ==
  \E i \in 0..(Len(s) - Len(p)) : SubSeq(s, i + 1, i + Len(p)) = p

(* ------------------- requests.structures.CaseInsensitiveDict ----------- *)

\* str.lower() on the header names of the model
Lower(n) ==
  CASE n = "Content-Encoding" -> "content-encoding"
    [] n = "CONTENT-ENCODING" -> "content-encoding"
    [] n = "Content-Type" -> "content-type"
    [] OTHER -> n

\* resp.headers.get(name, default)
CIGet(h, name, default) ==
  IF \E p \in h : Lower(p[1]) = Lower(name)
  THEN (CHOOSE p \in h : Lower(p[1]) = Lower(name))[2]
  ELSE default

\* a dict keyed by the exact header name, as a plain dict would delete
CSDel(h, name) == {p \in h : p[1] # name}

\* del resp.headers[name]
CIDel(h, name) == {p \in h : Lower(p[1]) # Lower(name)}

HeaderNames(h) == {p[1] : p \in h}

(* -------------------------------- json --------------------------------- *)

JNull == [k |-> "null", v |-> <<>>]
JStr(s) == [k |-> "str", v |-> s]
JNum(s) == [k |-> "num", v |-> s]

RECURSIVE LStrip(_)
LStrip(s) ==
  IF s # <<>> /\ Head(s) = SPACE THEN LStrip(Tail(s)) ELSE s

RECURSIVE RStrip(_)
RStrip(s) ==
  IF s # <<>> /\ s[Len(s)] = SPACE THEN RStrip(SubSeq(s, 1, Len(s) - 1)) ELSE s

\* the decoder skips whitespace before and after the one top-level value
Strip(s) == RStrip(LStrip(s))

\* JSON number grammar, integers only: 0 | [1-9][0-9]*
IsNumber(t) ==
  /\ t # <<>>
  /\ \A i \in 1..Len(t) : t[i] \in Digits
  /\ (Len(t) > 1 => t[1] # "0")

\* Scans the inside of a string literal from position i of t.  The result is
\* [ok, v, end]: end is the position of the closing quote.
RECURSIVE ScanString(_, _, _)
ScanString(t, i, acc) ==
  IF i > Len(t) THEN [ok |-> FALSE, v |-> <<>>, end |-> 0]
  ELSE IF t[i] = QUOTE THEN [ok |-> TRUE, v |-> acc, end |-> i]
  ELSE IF t[i] = BSLASH
       THEN IF i + 1 <= Len(t) /\ t[i + 1] \in {QUOTE, BSLASH}
            THEN ScanString(t, i + 2, Append(acc, t[i + 1]))
            ELSE [ok |-> FALSE, v |-> <<>>, end |-> 0]
  ELSE ScanString(t, i + 1, Append(acc, t[i]))

\* json.loads / resp.json(): [ok, val]; ok = FALSE stands for ValueError
Loads(text) ==
  LET t == Strip(text)
  IN  IF t = NullText THEN [ok |-> TRUE, val |-> JNull]
      ELSE IF IsNumber(t) THEN [ok |-> TRUE, val |-> JNum(t)]
      ELSE IF t # <<>> /\ Head(t) = QUOTE
           THEN LET r == ScanString(t, 2, <<>>)
                IN  IF r.ok /\ r.end = Len(t)
                    THEN [ok |-> TRUE, val |-> JStr(r.v)]
                    ELSE [ok |-> FALSE, val |-> JNull]
      ELSE [ok |-> FALSE, val |-> JNull]

\* the encoder escapes the quote and the backslash inside a string
RECURSIVE Escape(_)
Escape(s) ==
  IF s = <<>> THEN <<>>
  ELSE IF Head(s) \in {QUOTE, BSLASH}
       THEN <<BSLASH, Head(s)>> \o Escape(Tail(s))
       ELSE <<Head(s)>> \o Escape(Tail(s))

\* json.dumps(value)
Dumps(val) ==
  CASE val.k = "null" -> NullText
    [] val.k = "num" -> val.v
    [] val.k = "str" -> <<QUOTE>> \o Escape(val.v) \o <<QUOTE>>

(* ------------------------------ requests ------------------------------- *)

UrlA == [scheme |-> "http", netloc |-> "api.example.com",
         path |-> "/users", query |-> "id=1"]
UrlB == [scheme |-> "http", netloc |-> "api.example.com",
         path |-> "/users", query |-> "id=2"]

\* PreparedRequest.path_url
PathUrl(u) == [path |-> u.path, query |-> u.query]

GetA == [method |-> "GET", url |-> UrlA, headers |-> {}, body |-> JNull]
GetB == [method |-> "GET", url |-> UrlB, headers |-> {}, body |-> JNull]
PostA == [method |-> "POST", url |-> UrlA,
          headers |-> {<<"Content-Type", <<"a">>>>}, body |-> JStr(<<"a">>)]

\* no request issued yet
NoRequest == [method |-> "", url |-> UrlA, headers |-> {}, body |-> JNull]

\* The prepared requests a test body issues: method, url, headers, body.
Requests == {GetA, GetB, PostA}

\* Header mappings a live server answers with.  A CaseInsensitiveDict holds
\* each name in one spelling only.
LiveHeaders ==
  { {},
    {<<"Content-Type", <<"a">>>>},
    {<<"Content-Encoding", Gzip>>, <<"Content-Type", <<"a">>>>},
    {<<"content-encoding", Gzip>>, <<"Content-Type", <<"a">>>>},
    {<<"CONTENT-ENCODING", <<"x", "-">> \o Gzip>>},
    {<<"Content-Encoding", <<"d", "e", "f", "l", "a", "t", "e">>>>} }

\* requests.Response as the record callback reads it
Live(st, h, t) == [status_code |-> st, headers |-> h, text |-> t]

\* The answers of the live server in a session.
LiveResponses ==
  { Live(200, {<<"Content-Type", <<"a">>>>}, <<"1">>),
    Live(200, {<<"Content-Encoding", Gzip>>, <<"Content-Type", <<"a">>>>},
         <<QUOTE, "a", QUOTE>>),
    Live(404, {<<"content-encoding", Gzip>>}, <<"a">>),
    Live(200, {<<"Content-Encoding", <<"d", "e", "f", "l", "a", "t", "e">>>>},
         <<SPACE, "1", "0">>) }

\* stands for no response: sess.send raised
NoLive == Live(0, {}, <<>>)

(* ------------------------------- tracks -------------------------------- *)

\* What a caller gets for a request: kind is "response" or the name of the
\* exception raised ("none": nothing issued yet, or not answered yet).
Reply(kd, st, h, b) == [kind |-> kd, status_code |-> st, headers |-> h, body |-> b]

NoReply == Reply("none", 0, {}, <<>>)

Raised(kd) == Reply(kd, 0, {}, <<>>)

NoStored == [status_code |-> 0, headers |-> {}, body |-> JNull]

\* track["request"] of the record callback
TrackRequest(req) ==
  [method |-> req.method, url |-> req.url, path |-> PathUrl(req.url),
   headers |-> req.headers, body |-> req.body]

\* A track is [missing, request, response]; missing names the key an entry
\* read from a file lacks ("none" for a complete track).
Track(rq, rs) == [missing |-> "none", request |-> rq, response |-> rs]

\* The else-branch of the record callback on the live response resp: the
\* track appended to the cassette and the tuple returned to the caller.
RecordResult(req, resp) ==
  LET content_encoding == CIGet(resp.headers, "Content-Encoding", <<>>)
      headers == IF IsInfix(Gzip, content_encoding)
                 THEN CIDel(resp.headers, "Content-Encoding")
                 ELSE resp.headers
      parsed == Loads(resp.text)
      body == IF parsed.ok THEN parsed.val ELSE JStr(resp.text)
      bodys == IF parsed.ok THEN Dumps(parsed.val) ELSE resp.text
  IN  [track |-> Track(TrackRequest(req),
                       [status_code |-> resp.status_code,
                        headers |-> headers,
                        body |-> body]),
       ret |-> Reply("response", resp.status_code, headers, bodys)]

\* a replay callback handing out the stored body without json.dumps
PlayNoDumps(response) ==
  Reply("response", response.status_code, response.headers, response.body.v)

\* The callback play(response) builds
Play(response) ==
  Reply("response", response.status_code, response.headers,
        Dumps(response.body))

(* ---------------------------- cassette file ---------------------------- *)

\* The file is [exists, json, entries]: json tells whether its text parses
\* as JSON, entries is the parsed array with every body kept as JSON text.
NoFile == [exists |-> FALSE, json |-> FALSE, entries |-> <<>>]

Garbage == [exists |-> TRUE, json |-> FALSE, entries |-> <<>>]

EncodeEntry(t) ==
  [missing |-> t.missing,
   request |-> [t.request EXCEPT !.body = Dumps(t.request.body)],
   response |-> [t.response EXCEPT !.body = Dumps(t.response.body)]]

DecodeEntry(e) ==
  [missing |-> e.missing,
   request |-> [e.request EXCEPT !.body = Loads(e.request.body).val],
   response |-> [e.response EXCEPT !.body = Loads(e.response.body).val]]

\* json.dumps(self.cassette) written by _cass_file().write
JsonDumps(cas) ==
  [exists |-> TRUE, json |-> TRUE,
   entries |-> [i \in 1..Len(cas) |-> EncodeEntry(cas[i])]]

\* json.loads(data) of a file whose text is JSON
JsonLoads(f) == [i \in 1..Len(f.entries) |-> DecodeEntry(f.entries[i])]

\* an entry lacking one key
Lacking(e, key) == [e EXCEPT !.missing = key]

\* Keys whose absence makes rewind_cassette raise KeyError
RewindKeys == {"request", "method", "url", "response"}

(* ------------------------ responses.RequestsMock ----------------------- *)

\* all_re = re.compile("http.*"), matched at the start of the url
AllRe == [scheme |-> "http", netloc |-> ".*", path |-> "", query |-> ""]

\* the stand-in setup_recording registers
RecordStandIn ==
  [method |-> "GET", regex |-> TRUE, url |-> AllRe, callback |-> "record",
   response |-> NoStored, lacks |-> "none"]

\* the stand-in rewind_cassette registers for a track
PlayStandIn(track) ==
  [method |-> track.request.method, regex |-> FALSE, url |-> track.request.url,
   callback |-> "play", response |-> track.response, lacks |-> track.missing]

\* url matching of a stand-in registered without match_querystring=True
HasUrlMatchNoQuery(m, url) ==
  IF m.regex THEN url.scheme \in {"http", "https"}
  ELSE [m.url EXCEPT !.query = ""] = [url EXCEPT !.query = ""]

\* a regex is matched at the start of the url; a string registered with
\* match_querystring=True is compared with the whole url
HasUrlMatch(m, url) ==
  IF m.regex THEN url.scheme \in {"http", "https"} ELSE m.url = url

Matches(m, req) == m.method = req.method /\ HasUrlMatch(m, req.url)

\* a registry answering with the stand-in registered last
FindLastMatch(reg, req) ==
  IF \E i \in 1..Len(reg) : Matches(reg[i], req)
  THEN CHOOSE i \in 1..Len(reg) :
         /\ Matches(reg[i], req)
         /\ \A j \in (i + 1)..Len(reg) : ~Matches(reg[j], req)
  ELSE 0

\* index of the first registered stand-in matching req, 0 when none does
FindMatch(reg, req) ==
  IF \E i \in 1..Len(reg) : Matches(reg[i], req)
  THEN CHOOSE i \in 1..Len(reg) :
         /\ Matches(reg[i], req)
         /\ \A j \in 1..(i - 1) : ~Matches(reg[j], req)
  ELSE 0

(* ---------------------------- file location --------------------------- *)

\* os.path.sep
SEP == "/"

\* the characters cassette names are built from
NameAlphabet == {"a", "_", SEP}

CassetteSuffix == <<"c", "a", "s", "s", "e", "t", "t", "e">>

\* cassette_name.replace(os.path.sep, "_")
ReplaceSep(name) ==
  [i \in 1..Len(name) |-> IF name[i] = SEP THEN "_" ELSE name[i]]

\* _test_name: ".".join((filename, "cassette"))
TestName(name) == ReplaceSep(name) \o <<".">> \o CassetteSuffix

\* _cass_dir: basedir.join("cassettes"), a path as its components
CassDir(basedir) == Append(basedir, "cassettes")

\* _cass_file: the directory and the file name in it
CassFile(basedir, name) == [dir |-> CassDir(basedir), name |-> TestName(name)]

\* no file resolved yet
NoPath == [dir |-> <<>>, name |-> <<>>]

LocOff == [pc |-> "off", basedir |-> <<>>, a |-> <<>>, b |-> <<>>,
           pa |-> NoPath, pb |-> NoPath]

(* ------------------------------- Recorder ------------------------------ *)

\* setup testing has_cassette() where it tests not has_cassette()
HasCassetteInverted == ~file.exists

\* has_cassette
HasCassette == file.exists

\* _insert_cassette, on a file whose text is JSON
InsertCassette == IF ~has_recorded THEN JsonLoads(file) ELSE cassette

\* Number of tracks rewind_cassette registers: all of them, or those before
\* the first track whose lookup raises KeyError.
RewindCount(cas) ==
  IF \E i \in 1..Len(cas) : cas[i].missing \in RewindKeys
  THEN (CHOOSE i \in 1..Len(cas) :
          /\ cas[i].missing \in RewindKeys
          /\ \A j \in 1..(i - 1) : cas[j].missing \notin RewindKeys) - 1
  ELSE Len(cas)

\* rewind_cassette run with the recording stand-in still registered
RewindCassetteAfterRecorder(cas) ==
  <<RecordStandIn>> \o [i \in 1..RewindCount(cas) |-> PlayStandIn(cas[i])]

\* rewind_cassette: the stand-ins registered, in cassette order
RewindCassette(cas) == [i \in 1..RewindCount(cas) |-> PlayStandIn(cas[i])]

Calls(n, name) == [i \in 1..n |-> name]

\* setup_recording
SetupRecording ==
  /\ registry' = <<RecordStandIn>>
  /\ mode' = "RECORDING"
  /\ phase' = "ready"
  /\ ops' = <<"start", "reset", "add_callback">>
  /\ UNCHANGED cassette

\* setup_playback; json.loads raises ValueError on a text that is not JSON
SetupPlayback ==
  /\ mode' = "PLAYING"
  /\ IF ~has_recorded /\ ~file.json
     THEN /\ phase' = "failed"
          /\ ops' = <<"start", "read_text">>
          /\ UNCHANGED <<cassette, registry>>
     ELSE LET cas == InsertCassette
          IN  /\ cassette' = cas
              /\ registry' = RewindCassette(cas)
              /\ phase' = IF RewindCount(cas) < Len(cas) THEN "failed" ELSE "ready"
              /\ ops' = <<"start">>
                          \o (IF ~has_recorded THEN <<"read_text">> ELSE <<>>)
                          \o <<"reset">>
                          \o Calls(RewindCount(cas), "add_callback")

\* setup
Setup ==
  /\ phase = "new"
  /\ started' = TRUE
  /\ IF ~HasCassette THEN SetupRecording ELSE SetupPlayback
  /\ UNCHANGED <<file, has_recorded, asked, last, sends, writes, heard, tape,
                 nreq, nsess, codec, loc, flight, passed, strays>>

\* The test body issues a request while the session is set up.
Issue(req) ==
  /\ phase = "ready"
  /\ started
  /\ nreq < MaxRequests
  /\ nreq' = nreq + 1
  /\ asked' = req

\* No stand-in matches: responses raises ConnectionError.
Unmatched(req) ==
  /\ Issue(req)
  /\ FindMatch(registry, req) = 0
  /\ last' = Raised("ConnectionError")
  /\ ops' = <<>>
  /\ UNCHANGED <<file, cassette, has_recorded, started, registry, phase,
                 mode, sends, writes, heard, tape, nsess, codec, loc, flight, passed, strays>>

\* play(response)._callback; response['status_code'] raises KeyError on a
\* stored response lacking it
PlayCallback(req) ==
  /\ Issue(req)
  /\ FindMatch(registry, req) # 0
  /\ LET m == registry[FindMatch(registry, req)]
     IN  /\ m.callback = "play"
         /\ last' = IF m.lacks = "status_code" THEN Raised("KeyError")
                     ELSE Play(m.response)
  /\ ops' = <<>>
  /\ UNCHANGED <<file, cassette, has_recorded, started, registry, phase,
                 mode, sends, writes, heard, tape, nsess, codec, loc, flight, passed, strays>>

\* a record callback sending without having stopped interception
RecordCallbackSendNoStop(req) ==
  /\ Issue(req)
  /\ FindMatch(registry, req) # 0
  /\ registry[FindMatch(registry, req)].callback = "record"
  /\ flight' = req
  /\ sends' = sends + 1
  /\ last' = NoReply
  /\ ops' = <<"send">>
  /\ UNCHANGED <<file, cassette, has_recorded, started, registry, phase, mode,
                 writes, heard, tape, nsess, codec, loc, passed, strays>>

\* record()._callback up to sess.send: responses matched the request to the
\* recording stand-in, the callback stops interception and hands the request
\* to the real client, which waits for the network
RecordCallbackSend(req) ==
  /\ Issue(req)
  /\ FindMatch(registry, req) # 0
  /\ registry[FindMatch(registry, req)].callback = "record"
  /\ flight' = req
  /\ started' = FALSE
  /\ sends' = sends + 1
  /\ last' = NoReply
  /\ ops' = <<"stop", "send">>
  /\ UNCHANGED <<file, cassette, has_recorded, registry, phase, mode,
                 writes, heard, tape, nsess, codec, loc, passed, strays>>

\* the sequence s without its i-th element
Without(s, i) == SubSeq(s, 1, i - 1) \o SubSeq(s, i + 1, Len(s))

\* A request issued while interception is stopped (by a response hook of
\* the request in flight, or by another thread): no stand-in sees it, it
\* goes to the network and waits for its answer.
UninterceptedSend(req) ==
  /\ phase = "ready"
  /\ ~started
  /\ nreq < MaxRequests
  /\ nreq' = nreq + 1
  /\ asked' = req
  /\ strays' = Append(strays, req)
  /\ UNCHANGED <<file, cassette, has_recorded, started, registry, phase, mode,
                 last, ops, sends, writes, heard, tape, nsess, codec, loc,
                 flight, passed>>

\* The network answers the i-th of these requests with resp, or the request
\* raises when resp is NoLive; the record callback of the request in flight
\* may have started interception again by then.
Unintercepted(i, resp) ==
  /\ phase = "ready"
  /\ i \in 1..Len(strays)
  /\ asked' = strays[i]
  /\ strays' = Without(strays, i)
  /\ IF resp = NoLive
     THEN /\ last' = Raised("exception")
          /\ UNCHANGED passed
     ELSE LET got == Reply("response", resp.status_code, resp.headers,
                           resp.text)
          IN  /\ last' = got
              /\ passed' = Append(passed, [method |-> strays[i].method,
                                            url |-> strays[i].url,
                                            reply |-> got])
  /\ UNCHANGED <<file, cassette, has_recorded, started, registry, phase, mode,
                 ops, sends, writes, heard, tape, nreq, nsess, codec, loc,
                 flight>>

\* a record callback appending the track without setting has_recorded
RecordCallbackForgetsFlag(resp) ==
  /\ phase = "ready"
  /\ flight # NoRequest
  /\ LET r == RecordResult(flight, resp)
     IN  /\ cassette' = Append(cassette, r.track)
         /\ last' = r.ret
         /\ heard' = Append(heard, [method |-> flight.method,
                                     url |-> flight.url, reply |-> r.ret])
  /\ asked' = flight
  /\ flight' = NoRequest
  /\ started' = TRUE
  /\ ops' = Append(ops, "start")
  /\ UNCHANGED <<file, has_recorded, registry, phase, mode, sends, writes,
                 tape, nreq, nsess, codec, loc, passed, strays>>

\* record()._callback from the return of sess.send with resp
RecordCallback(resp) ==
  /\ phase = "ready"
  /\ flight # NoRequest
  /\ LET r == RecordResult(flight, resp)
     IN  /\ cassette' = Append(cassette, r.track)
         /\ last' = r.ret
         /\ heard' = Append(heard, [method |-> flight.method,
                                     url |-> flight.url, reply |-> r.ret])
  /\ has_recorded' = TRUE
  /\ asked' = flight
  /\ flight' = NoRequest
  /\ started' = TRUE
  /\ ops' = Append(ops, "start")
  /\ UNCHANGED <<file, registry, phase, mode, sends, writes, tape, nreq,
                 nsess, codec, loc, passed, strays>>

\* a record callback whose start() is not in a finally clause
RecordCallbackRaisesNoFinally ==
  /\ phase = "ready"
  /\ flight # NoRequest
  /\ last' = Raised("exception")
  /\ asked' = flight
  /\ flight' = NoRequest
  /\ UNCHANGED <<file, cassette, has_recorded, started, registry, phase, mode,
                 ops, sends, writes, heard, tape, nreq, nsess, codec, loc,
                 passed, strays>>

\* record()._callback when sess.send raises
RecordCallbackRaises ==
  /\ phase = "ready"
  /\ flight # NoRequest
  /\ last' = Raised("exception")
  /\ asked' = flight
  /\ flight' = NoRequest
  /\ started' = TRUE
  /\ ops' = Append(ops, "start")
  /\ UNCHANGED <<file, cassette, has_recorded, registry, phase, mode,
                 sends, writes, heard, tape, nreq, nsess, codec, loc,
                 passed, strays>>

\* the file after a write that ends as w tells
Written(w) ==
  IF w = "ok" THEN JsonDumps(cassette)
  ELSE IF w = "torn" THEN Garbage
  ELSE file

\* a teardown writing the cassette whether or not anything was recorded
TeardownAlwaysWrites(w) ==
  /\ phase = "ready"
  /\ flight = NoRequest
  /\ strays = <<>>
  /\ started' = FALSE
  /\ registry' = <<>>
  /\ phase' = "torn_down"
  /\ IF w = "unserialized"
     THEN /\ ops' = <<"stop", "reset">>
          /\ UNCHANGED <<writes, file, tape>>
     ELSE /\ writes' = writes + 1
          /\ file' = Written(w)
          /\ tape' = IF w = "ok" THEN heard ELSE tape
          /\ ops' = <<"stop", "reset", "write">>
  /\ UNCHANGED <<cassette, has_recorded, mode, asked, last, sends, heard,
                 nreq, nsess, codec, loc, flight, passed, strays>>

\* a teardown writing the cassette before it stops and resets interception
TeardownWritesFirst(w) ==
  /\ phase = "ready"
  /\ flight = NoRequest
  /\ strays = <<>>
  /\ phase' = "torn_down"
  /\ IF has_recorded
     THEN IF w = "unserialized"
          THEN /\ ops' = <<>>
               /\ UNCHANGED <<writes, file, tape, started, registry>>
          ELSE /\ writes' = writes + 1
               /\ file' = Written(w)
               /\ tape' = IF w = "ok" THEN heard ELSE tape
               /\ IF w = "ok"
                  THEN /\ started' = FALSE
                       /\ registry' = <<>>
                       /\ ops' = <<"write", "stop", "reset">>
                  ELSE /\ ops' = <<"write">>
                       /\ UNCHANGED <<started, registry>>
     ELSE /\ started' = FALSE
          /\ registry' = <<>>
          /\ ops' = <<"stop", "reset">>
          /\ UNCHANGED <<writes, file, tape>>
  /\ UNCHANGED <<cassette, has_recorded, mode, asked, last, sends, heard,
                 nreq, nsess, codec, loc, flight, passed, strays>>

\* How the write of teardown can end: "ok"; "torn", when it raises or the
\* process dies part-way, which leaves a truncated text; "refused", when the
\* write raises before it stores anything (the cassettes directory cannot be
\* created); "unserialized", when json.dumps raises before the write is
\* called (Python 3 rejects its encoding argument).
WriteOutcomes == {"ok", "torn", "refused", "unserialized"}

\* teardown, called once the test body is over, its requests all answered;
\* w tells how the write ends
Teardown(w) ==
  /\ phase = "ready"
  /\ flight = NoRequest
  /\ strays = <<>>
  /\ started' = FALSE
  /\ registry' = <<>>
  /\ phase' = "torn_down"
  /\ IF has_recorded /\ w # "unserialized"
     THEN /\ writes' = writes + 1
          /\ file' = Written(w)
          /\ tape' = IF w = "ok" THEN heard ELSE tape
          /\ ops' = <<"stop", "reset", "write">>
     ELSE /\ ops' = <<"stop", "reset">>
          /\ UNCHANGED <<writes, file, tape>>
  /\ UNCHANGED <<cassette, has_recorded, mode, asked, last, sends, heard,
                 nreq, nsess, codec, loc, flight, passed, strays>>

\* __init__: the next test run builds a new Recorder for the same cassette
NewSession ==
  /\ phase \in {"torn_down", "failed"}
  /\ nsess < MaxSessions
  /\ nsess' = nsess + 1
  /\ cassette' = <<>>
  /\ has_recorded' = FALSE
  /\ started' = FALSE
  /\ registry' = <<>>
  /\ phase' = "new"
  /\ mode' = "NONE"
  /\ sends' = 0
  /\ writes' = 0
  /\ asked' = NoRequest
  /\ last' = NoReply
  /\ ops' = <<>>
  /\ heard' = <<>>
  /\ nreq' = 0
  /\ flight' = NoRequest
  /\ passed' = <<>>
  /\ strays' = <<>>
  /\ UNCHANGED <<file, tape, codec, loc>>

(* ----------------------------- cassette files -------------------------- *)

TrackA == RecordResult(GetA, Live(200, {<<"Content-Type", <<"a">>>>}, <<"1">>)).track
TrackB == RecordResult(GetB, Live(404, {}, <<"a">>)).track

EntryKeys == RewindKeys \cup {"status_code"}

\* Cassette files found on disk before the first session: none, a text that
\* is not JSON, complete cassettes, and cassettes with an entry lacking a key.
InitFiles ==
  {NoFile, Garbage, JsonDumps(<<TrackA>>), JsonDumps(<<TrackA, TrackB>>)}
  \cup { [JsonDumps(<<TrackA, TrackB>>) EXCEPT !.entries[i] = Lacking(@, k)] :
           i \in 1..2, k \in EntryKeys }

(* ------------------------------- codec run ----------------------------- *)

CodecOff ==
  [pc |-> "off", req |-> GetA, resp |-> Live(0, {}, <<>>),
   track |-> Track(TrackRequest(GetA), NoStored),
   loaded |-> Track(TrackRequest(GetA), NoStored),
   ret |-> NoReply, replay |-> NoReply]

Texts(n) == UNION {[1..k -> Alphabet] : k \in 0..n} \cup {NullText}

SessionInit ==
  /\ cassette = <<>>
  /\ has_recorded = FALSE
  /\ started = FALSE
  /\ registry = <<>>
  /\ phase = "new"
  /\ mode = "NONE"
  /\ sends = 0
  /\ writes = 0
  /\ asked = NoRequest
  /\ last = NoReply
  /\ ops = <<>>
  /\ heard = <<>>
  /\ tape = <<>>
  /\ nreq = 0
  /\ nsess = 1
  /\ flight = NoRequest
  /\ passed = <<>>
  /\ strays = <<>>

Init ==
  /\ SessionInit
  /\ file \in InitFiles
  /\ codec = CodecOff
  /\ loc = LocOff

Next ==
  \/ Setup
  \/ \E req \in Requests : Unmatched(req)
  \/ \E req \in Requests : PlayCallback(req)
  \/ \E req \in Requests : RecordCallbackSend(req)
  \/ \E req \in Requests : UninterceptedSend(req)
  \/ \E i \in 1..MaxRequests, resp \in LiveResponses \cup {NoLive} :
       Unintercepted(i, resp)
  \/ \E resp \in LiveResponses : RecordCallback(resp)
  \/ RecordCallbackRaises
  \/ \E w \in WriteOutcomes : Teardown(w)
  \/ NewSession

Spec == Init /\ [][Next]_vars

\* One exchange taken through the record callback, the cassette file and the
\* replay callback, for every live response within the bounds.
CodecInit ==
  /\ SessionInit
  /\ file = NoFile
  /\ \E st \in {200, 404}, h \in LiveHeaders, t \in Texts(MaxLen) :
       codec = [CodecOff EXCEPT !.pc = "in", !.resp = Live(st, h, t)]
  /\ loc = LocOff

CodecRecord ==
  /\ codec.pc = "in"
  /\ LET r == RecordResult(codec.req, codec.resp)
     IN  codec' = [codec EXCEPT !.pc = "recorded", !.track = r.track,
                                !.ret = r.ret]
  /\ UNCHANGED <<file, cassette, has_recorded, started, registry, phase, mode,
                 asked, last, ops, sends, writes, heard, tape, nreq, nsess,
                 loc, flight, passed, strays>>

CodecPersist ==
  /\ codec.pc = "recorded"
  /\ codec' = [codec EXCEPT !.pc = "loaded",
                             !.loaded = JsonLoads(JsonDumps(<<codec.track>>))[1]]
  /\ UNCHANGED <<file, cassette, has_recorded, started, registry, phase, mode,
                 asked, last, ops, sends, writes, heard, tape, nreq, nsess,
                 loc, flight, passed, strays>>

CodecPlay ==
  /\ codec.pc = "loaded"
  /\ codec' = [codec EXCEPT !.pc = "played",
                             !.replay = Play(codec.loaded.response)]
  /\ UNCHANGED <<file, cassette, has_recorded, started, registry, phase, mode,
                 asked, last, ops, sends, writes, heard, tape, nreq, nsess,
                 loc, flight, passed, strays>>

CodecNext == CodecRecord \/ CodecPersist \/ CodecPlay

CodecSpec == CodecInit /\ [][CodecNext]_vars

(* ------------------------------ location run --------------------------- *)

Names(n) == UNION {[1..k -> NameAlphabet] : k \in 1..n}

\* Two cassette names under one base directory, for every pair of names
\* within the bounds.
LocInit ==
  /\ SessionInit
  /\ file = NoFile
  /\ codec = CodecOff
  /\ \E x \in Names(MaxName), y \in Names(MaxName) :
       loc = [LocOff EXCEPT !.pc = "in", !.basedir = <<"tests">>,
                            !.a = x, !.b = y]

Locate ==
  /\ loc.pc = "in"
  /\ loc' = [loc EXCEPT !.pc = "located",
                        !.pa = CassFile(loc.basedir, loc.a),
                        !.pb = CassFile(loc.basedir, loc.b)]
  /\ UNCHANGED <<file, cassette, has_recorded, started, registry, phase, mode,
                 asked, last, ops, sends, writes, heard, tape, nreq, nsess,
                 codec, flight, passed, strays>>

LocNext == Locate

LocSpec == LocInit /\ [][LocNext]_vars

(* ================================ claims =============================== *)

\* C1: setup chooses the mode once, from the existence of the cassette
\* file: without a file it registers the recording stand-in alone and loads
\* nothing, with a file it loads the tracks and registers one replay
\* stand-in per track, in order; no request changes mode, stand-ins or file.
C1_ModeChosenAtSetup ==
  [][ /\ (phase = "new" /\ phase' # "new") =>
           /\ mode' = IF file.exists THEN "PLAYING" ELSE "RECORDING"
           /\ (phase' = "ready" /\ ~file.exists) =>
                 /\ registry' = <<RecordStandIn>>
                 /\ cassette' = <<>>
           /\ (phase' = "ready" /\ file.exists) =>
                 /\ cassette' = JsonLoads(file)
                 /\ Len(registry') = Len(cassette')
                 /\ \A i \in 1..Len(cassette') :
                      /\ registry'[i].callback = "play"
                      /\ registry'[i].method = cassette'[i].request.method
                      /\ registry'[i].url = cassette'[i].request.url
                      /\ registry'[i].response = cassette'[i].response
      /\ (phase = "ready" /\ phase' = "ready") =>
           /\ mode' = mode
           /\ registry' = registry
           /\ file' = file ]_vars

\* a playback session of a cassette the session before recorded, after two
\* requests
C1_Witness ==
  /\ phase = "ready"
  /\ mode = "PLAYING"
  /\ nsess = 2
  /\ Len(tape) >= 1
  /\ Len(registry) = Len(tape)
  /\ nreq >= 2

\* C2: a playback session never writes the cassette file; a recording
\* session writes it at most once, in teardown, and only when the session
\* captured at least one track.
C2_AtMostOneWrite ==
  [][ /\ writes' <= 1
      /\ (mode = "PLAYING" => (file' = file /\ writes' = writes))
      /\ ((file' # file \/ writes' > writes) =>
            /\ phase = "ready"
            /\ phase' = "torn_down"
            /\ mode = "RECORDING"
            /\ writes = 0
            /\ writes' = 1
            /\ has_recorded
            /\ Len(heard) >= 1
            /\ ops'[Len(ops')] = "write") ]_vars

\* a recording session that has written its two tracks at teardown
C2_Witness ==
  /\ phase = "torn_down"
  /\ mode = "RECORDING"
  /\ writes = 1
  /\ file.json
  /\ Len(file.entries) = 2

\* C3: in a playback session sess.send is never called, whatever requests
\* are issued.
C3_NoSendWhilePlaying ==
  mode = "PLAYING" =>
    /\ sends = 0
    /\ \A i \in 1..Len(ops) : ops[i] # "send"

\* a playback session with stand-ins registered, whose second request
\* matched none of them
C3_Witness ==
  /\ mode = "PLAYING"
  /\ phase = "ready"
  /\ Len(registry) >= 1
  /\ nreq = 2
  /\ last.kind = "ConnectionError"

TapeKeysDistinct ==
  \A i, j \in 1..Len(tape) :
    i # j => <<tape[i].method, tape[i].url>> # <<tape[j].method, tape[j].url>>

\* C4: when a session recorded requests with pairwise distinct (method,
\* url) and wrote the cassette, a later session answers each of these
\* requests with the status, headers and body its caller got while
\* recording.
C4_RecordThenPlay ==
  (phase = "ready" /\ mode = "PLAYING" /\ nreq > 0 /\ TapeKeysDistinct) =>
    \A i \in 1..Len(tape) :
      (tape[i].method = asked.method /\ tape[i].url = asked.url) =>
        last = tape[i].reply

\* the response headers of an exchange without a content-encoding entry
Unencoded(h) == {p \in h : Lower(p[1]) # "content-encoding"}

\* C5: the replay callback applied to a recorded track returns the stored
\* status code and headers (the live headers, less a stripped
\* content-encoding) and a body that parses as JSON to the stored body.
C5_CodecRoundTrip ==
  codec.pc = "played" =>
    LET live == codec.resp
        stored == codec.track.response
        out == codec.replay
    IN  /\ out.kind = "response"
        /\ out.status_code = stored.status_code
        /\ stored.status_code = live.status_code
        /\ out.headers = stored.headers
        /\ stored.headers =
             IF IsInfix(Gzip, CIGet(live.headers, "Content-Encoding", <<>>))
             THEN Unencoded(live.headers) ELSE live.headers
        /\ Loads(out.body).ok
        /\ Loads(out.body).val = stored.body

\* a gzip response whose payload is a lone quote, kept as raw text, replayed
C5_Witness ==
  /\ codec.pc = "played"
  /\ codec.resp.text = <<QUOTE>>
  /\ <<"Content-Encoding", Gzip>> \in codec.resp.headers
  /\ codec.replay.body = <<QUOTE, BSLASH, QUOTE, QUOTE>>

\* C6: when the live response has a Content-Encoding containing gzip,
\* neither the track nor the headers returned to the caller have a
\* content-encoding entry, and both keep every other header.
C6_GzipStripped ==
  (codec.pc \in {"recorded", "loaded", "played"}
     /\ IsInfix(Gzip, CIGet(codec.resp.headers, "Content-Encoding", <<>>))) =>
    /\ \A n \in HeaderNames(codec.track.response.headers) :
         Lower(n) # "content-encoding"
    /\ \A n \in HeaderNames(codec.ret.headers) : Lower(n) # "content-encoding"
    /\ codec.track.response.headers = Unencoded(codec.resp.headers)
    /\ codec.ret.headers = Unencoded(codec.resp.headers)

\* a response with a lower-case content-encoding: gzip and one more header,
\* recorded
C6_Witness ==
  /\ codec.pc = "recorded"
  /\ <<"content-encoding", Gzip>> \in codec.resp.headers
  /\ codec.track.response.headers = {<<"Content-Type", <<"a">>>>}

\* C7: in a recording session every request issued, whatever its method, is
\* sent for real and answered by the record callback.
C7_CatchAllAnyMethod ==
  (phase = "ready" /\ mode = "RECORDING" /\ nreq > 0 /\ flight = NoRequest
     /\ strays = <<>>) =>
    /\ last.kind \in {"response", "exception"}
    /\ sends = nreq

\* C8: when the real call raises in the record callback the caller gets the
\* exception and interception is on again with the recording stand-in
\* registered as before, as it is after a call that returned: whenever no
\* call is in flight a later request is intercepted.
C8_ReenabledAfterFailure ==
  [][ /\ (flight # NoRequest /\ flight' = NoRequest) =>
           /\ started'
           /\ registry' = registry
           /\ ops' = <<"stop", "send", "start">>
           /\ asked' = flight
           /\ last'.kind \in {"response", "exception"}
           /\ Len(cassette') = Len(cassette) => last'.kind = "exception"
      /\ (mode' = "RECORDING" /\ phase' = "ready" /\ flight' = NoRequest) =>
           /\ started'
           /\ registry' = <<RecordStandIn>> ]_vars

\* a recording session whose first real call raised and whose second request
\* was intercepted and recorded
C8_Witness ==
  /\ mode = "RECORDING"
  /\ phase = "ready"
  /\ flight = NoRequest
  /\ nreq = 2
  /\ sends = 2
  /\ passed = <<>>
  /\ Len(cassette) = 1
  /\ last.kind = "response"

\* C9: after teardown interception is stopped and no stand-in is registered;
\* stop and reset come first, before the write and whatever its outcome.
C9_TeardownCleanup ==
  phase = "torn_down" =>
    /\ ~started
    /\ registry = <<>>
    /\ Len(ops) >= 2
    /\ ops[1] = "stop"
    /\ ops[2] = "reset"
    /\ \A i \in 1..Len(ops) : ops[i] = "write" => i = 3

\* torn down after a real call that raised and a write that failed
C9_Witness ==
  /\ phase = "torn_down"
  /\ mode = "RECORDING"
  /\ sends > Len(cassette)
  /\ writes = 1
  /\ file = Garbage

\* the file is not JSON, or an entry of it lacks its request, method, url or
\* response
FileCorrupt(f) ==
  /\ f.exists
  /\ \/ ~f.json
     \/ \E i \in 1..Len(f.entries) : f.entries[i].missing \in RewindKeys

\* C10: setup on a corrupt cassette file fails, and fails with no replay
\* stand-in registered.
C10_CorruptCassetteAborts ==
  (phase \in {"ready", "failed"} /\ mode = "PLAYING" /\ FileCorrupt(file)) =>
    /\ phase = "failed"
    /\ registry = <<>>

\* every entry of the cassette has the keys of a track
Complete(cas) == \A i \in 1..Len(cas) : cas[i].missing = "none"

\* the tracks of the cassette whose method and url are those of req
Hits(cas, req) ==
  {i \in 1..Len(cas) : /\ cas[i].request.method = req.method
                        /\ cas[i].request.url = req.url}

\* C11: in a playback session a request is answered from a stored track
\* exactly when its method and whole url, query string included, are those
\* of a track; any other request gets ConnectionError, with no real call, no
\* recording and the cassette as loaded.
C11_PlaybackMatching ==
  (phase = "ready" /\ mode = "PLAYING" /\ nreq > 0 /\ Complete(cassette)) =>
    /\ (last.kind = "response" <=> Hits(cassette, asked) # {})
    /\ (Hits(cassette, asked) # {} =>
          \E i \in Hits(cassette, asked) : last = Play(cassette[i].response))
    /\ (Hits(cassette, asked) = {} => last.kind = "ConnectionError")
    /\ sends = 0
    /\ ~has_recorded
    /\ heard = <<>>
    /\ cassette = JsonLoads(file)

\* a cassette holding the track of ?id=1 alone: the request of ?id=1 was
\* answered, then the request of ?id=2 was not
C11_Witness ==
  /\ phase = "ready"
  /\ mode = "PLAYING"
  /\ Len(cassette) = 1
  /\ cassette[1].request.url = UrlA
  /\ nreq = 2
  /\ asked = GetB
  /\ last.kind = "ConnectionError"

\* C12: the body handed to the caller at replay is the string handed to the
\* caller at record time, for a payload that parsed as JSON and for one that
\* did not.
C12_ReplayBodyIsRecordBody ==
  codec.pc = "played" => codec.replay.body = codec.ret.body

\* C13: under one base directory two different cassette names resolve to
\* two different cassette files.
C13_LocationInjective ==
  (loc.pc = "located" /\ loc.a # loc.b) => loc.pa # loc.pb

\* whether interception is on after the calls, when it was s before them
RECURSIVE StartedAfter(_, _)
StartedAfter(s, calls) ==
  IF calls = <<>> THEN s
  ELSE StartedAfter(IF Head(calls) = "start" THEN TRUE
                    ELSE IF Head(calls) = "stop" THEN FALSE ELSE s,
                    Tail(calls))

\* the positions of the calls of one name
Positions(calls, name) == {i \in 1..Len(calls) : calls[i] = name}

\* C14: in a recording session interception is stopped exactly while the
\* record callback has a request with the real client; a request goes to the
\* real client only with interception stopped; a request reaching the record
\* callback makes one stop, then the send, then one start, whether the send
\* returns or raises.
C14_SuspendResume ==
  [][ /\ (phase' = "ready" /\ mode' = "RECORDING") =>
           (started' <=> flight' = NoRequest)
      /\ sends' > sends =>
           /\ sends' = sends + 1
           /\ started
           /\ ~started'
           /\ flight' = asked'
           /\ ops' = <<"stop", "send">>
      /\ Len(strays') > Len(strays) => (~started /\ ~started')
      /\ (flight # NoRequest /\ flight' = NoRequest) =>
           /\ ~started
           /\ started'
           /\ sends' = sends
           /\ ops' = <<"stop", "send", "start">>
           /\ StartedAfter(TRUE, ops')
           /\ \A i \in Positions(ops', "send") :
                ~StartedAfter(TRUE, SubSeq(ops', 1, i - 1))
           /\ last'.kind \in {"response", "exception"}
      /\ (mode = "RECORDING" /\ phase = "ready" /\ started
            /\ nreq' = nreq + 1 /\ FindMatch(registry, asked') = 0) =>
           /\ started'
           /\ ops' = <<>> ]_vars

\* a recording session whose first real call returned and whose second
\* raised
C14_Witness ==
  /\ mode = "RECORDING"
  /\ phase = "ready"
  /\ flight = NoRequest
  /\ nreq = 2
  /\ sends = 2
  /\ Len(cassette) = 1
  /\ last.kind = "exception"
  /\ ops = <<"stop", "send", "start">>
  /\ started

Deflate == <<"d", "e", "f", "l", "a", "t", "e">>

\* C15: when the Content-Encoding of the live response, under any spelling
\* of the header name, names an encoding the HTTP client has undone (gzip,
\* deflate), the recorded track has no content-encoding header.
C15_NoDecodedEncodingKept ==
  (codec.pc \in {"recorded", "loaded", "played"}
     /\ LET ce == CIGet(codec.resp.headers, "Content-Encoding", <<>>)
        IN  IsInfix(Gzip, ce) \/ IsInfix(Deflate, ce)) =>
    \A n \in HeaderNames(codec.track.response.headers) :
      Lower(n) # "content-encoding"

\* the first track of the cassette with the method and url of req
FirstHit(cas, req) ==
  CHOOSE i \in Hits(cas, req) : \A j \in Hits(cas, req) : i <= j

\* C16: the replay stand-ins are registered in cassette order, and a request
\* whose method and url several tracks share is always answered from the
\* first of them.
C16_FirstDuplicateWins ==
  (phase = "ready" /\ mode = "PLAYING" /\ Complete(cassette)) =>
    /\ Len(registry) = Len(cassette)
    /\ \A k \in 1..Len(cassette) : registry[k] = PlayStandIn(cassette[k])
    /\ (nreq > 0 /\ Hits(cassette, asked) # {}) =>
          /\ last = Play(cassette[FirstHit(cassette, asked)].response)
          /\ \A j \in Hits(cassette, asked) :
               Play(cassette[j].response)
                 # Play(cassette[FirstHit(cassette, asked)].response)
               => last # Play(cassette[j].response)

\* a cassette of two tracks for one method and url with different
\* responses, the request issued twice
C16_Witness ==
  /\ phase = "ready"
  /\ mode = "PLAYING"
  /\ Len(cassette) = 2
  /\ Hits(cassette, asked) = {1, 2}
  /\ cassette[1].response # cassette[2].response
  /\ nreq = 2
  /\ last = Play(cassette[1].response)

\* C17: after the teardown of a recording session, whatever happened while
\* it wrote, the cassette file is as it was before the write (absent) or
\* holds the whole new cassette.
C17_AtomicSave ==
  (phase = "torn_down" /\ mode = "RECORDING") =>
    (file = NoFile \/ file = JsonDumps(cassette))

\* C18: in a recording session with no request unanswered the cassette holds
\* one track for each exchange that completed with a response, and no other,
\* in the order of the calls; the file teardown has written holds that
\* cassette.
C18_CassetteIsSuccessLog ==
  (mode = "RECORDING" /\ phase \in {"ready", "torn_down"}
     /\ flight = NoRequest /\ strays = <<>>) =>
    /\ Len(cassette) = Len(heard) + Len(passed)
    /\ \A i \in 1..Len(heard) :
         i <= Len(cassette) =>
           /\ cassette[i].request.method = heard[i].method
           /\ cassette[i].request.url = heard[i].url
           /\ cassette[i].response.status_code = heard[i].reply.status_code
           /\ cassette[i].response.headers = heard[i].reply.headers
    /\ (phase = "torn_down" /\ file.json) => JsonLoads(file) = cassette

\* C19: over the sessions run one after another for one cassette, the file
\* is written only while it does not exist and exists from then on, an
\* existing file never changes and sends every later setup down the
\* playback branch, and a recording session torn down without a track
\* leaves no file, so that the next setup records again.
C19_WriteOnceAcrossSessions ==
  [][ /\ file.exists => file' = file
      /\ file' # file =>
           /\ ~file.exists
           /\ file'.exists
           /\ mode = "RECORDING"
           /\ phase' = "torn_down"
           /\ writes' = writes + 1
      /\ (phase = "new" /\ phase' # "new") =>
           mode' = IF file.exists THEN "PLAYING" ELSE "RECORDING"
      /\ (phase' = "torn_down" /\ mode = "RECORDING" /\ Len(cassette) = 0) =>
           (~file'.exists /\ writes' = writes) ]_vars

\* the third session, a playback of the cassette an earlier session
\* recorded, torn down with the file as that session wrote it
C19_Witness ==
  /\ nsess = 3
  /\ mode = "PLAYING"
  /\ phase = "torn_down"
  /\ Len(tape) >= 1
  /\ nreq >= 1
  /\ writes = 0
  /\ file = JsonDumps(cassette)

\* C20: has_recorded is set exactly when the cassette holds a track captured
\* in this session: in a recording session exactly when the cassette is not
\* empty; in a playback session never, the cassette staying the content
\* loaded from the file.
C20_HasRecordedInvariant ==
  /\ has_recorded <=> Len(heard) >= 1
  /\ mode = "NONE" => (cassette = <<>> /\ ~has_recorded)
  /\ mode = "RECORDING" =>
       /\ has_recorded <=> cassette # <<>>
       /\ Len(cassette) = Len(heard)
  /\ mode = "PLAYING" =>
       /\ ~has_recorded
       /\ cassette = IF file.json THEN JsonLoads(file) ELSE <<>>

\* a playback session with a loaded cassette after two requests
C20_Witness ==
  /\ mode = "PLAYING"
  /\ phase = "ready"
  /\ nreq = 2
  /\ Len(cassette) >= 1
  /\ ~has_recorded
  /\ last.kind = "response"

====
